---- MODULE Spec2Model ----
(***************************************************************************)
(* Model of script/get_del_Q.py: the mass weighted coordinate difference   *)
(* (delta Q) between two POSCAR geometries and the optional projection of  *)
(* a medium geometry on the initial -> final displacement.                 *)
(*                                                                         *)
(* Numbers.                                                                *)
(*   - A fractional coordinate of a file is k / Grid for an integer k; the *)
(*     script holds it as the IEEE double nearest to it.                   *)
(*   - Lines 34-35 and 52-53 (subtract, add 0.5, mod 1, subtract 0.5) are  *)
(*     modelled bit for bit.  A double x is the pair [k, r] with           *)
(*         x = k / Grid + r / (Grid * 2^FracBits),                         *)
(*     k the grid value and r what rounding left over; each operation is   *)
(*     exact on the pairs and then rounds to the nearest double, ties to   *)
(*     even, as the hardware does.                                         *)
(*   - np.dot with the lattice (lines 37 and 54) is modelled bit for bit   *)
(*     too: lattice entries are integers, each product and each partial    *)
(*     sum is rounded; a Cartesian component is a pair in units of         *)
(*     1 / Grid.                                                           *)
(*   - From there on the model computes with the leading term of every     *)
(*     number: a value is coefficient * Tiny^tiny with Tiny = 2^-FracBits, *)
(*     a sum keeps the terms of the least exponent.  The products, roots   *)
(*     and quotients of the script round below that.  When the terms of    *)
(*     the least exponent of a sum cancel, what the script computes is     *)
(*     made of the rounding of its operations and of the terms of higher  *)
(*     exponent: a number one exponent up whose coefficient the leading    *)
(*     terms do not determine, and which may be zero.  The model marks     *)
(*     such a value as noise and keeps its exponent only.                  *)
(*   - a rational is [n, d] in lowest terms, d > 0; d = 0 is a non-finite  *)
(*     float: [0, 0] is nan, [1, 0] is +inf, [-1, 0] is -inf;              *)
(*   - a mass is a rational; a sum of mass * rational is kept as the       *)
(*     function mass -> rational of its nonzero terms (a form), a sum of   *)
(*     sqrt(mass) * rational likewise;                                     *)
(*   - a square root is kept as its radicand, [sqrt_of |-> ...].           *)
(***************************************************************************)
EXTENDS Integers, Sequences, FiniteSets, TLC

\* Half the number of grid points per lattice vector: 0.5 is HalfGrid / Grid.
HalfGrid == 5

\* Fractional coordinates are multiples of 1 / Grid.
Grid == 2 * HalfGrid

\* Periodic images are searched over integer shifts -MaxShift .. MaxShift.
MaxShift == 1

Axes == 1..3

Abs(x) == IF x < 0 THEN -x ELSE x

RECURSIVE GCD(_, _)
GCD(a, b) == IF b = 0 THEN Abs(a) ELSE GCD(b, a % b)

Sgn(x) == IF x > 0 THEN 1 ELSE IF x < 0 THEN -1 ELSE 0

(***************************************************************************)
(* Floats as exact rationals with nan and inf.                             *)
(***************************************************************************)
NaN == [n |-> 0, d |-> 0]

\* n / d as numpy divides floats: 0 / 0 is nan, x / 0 is +-inf.
Rat(n, d) ==
    IF d = 0 THEN [n |-> Sgn(n), d |-> 0]
    ELSE LET g == GCD(Abs(n), Abs(d))
         IN  [n |-> (Sgn(d) * n) \div g, d |-> Abs(d) \div g]

IsFinite(x) == x.d # 0

RatAdd(x, y) == Rat(x.n * y.d + y.n * x.d, x.d * y.d)

\* (n / d) * Tiny^e; zero and the non-finite values carry no exponent.
Num(n, d, e) ==
    LET q == Rat(n, d)
    IN  [n |-> q.n, d |-> q.d, tiny |-> IF q.n = 0 \/ q.d = 0 THEN 0 ELSE e,
         noise |-> FALSE]

\* What is left when leading terms cancel: a finite number of the order of
\* Tiny^e whose coefficient is not determined and may be zero.
Noise(e) == [n |-> 0, d |-> 1, tiny |-> e, noise |-> TRUE]

\* The least element of a nonempty set of integers.
Least(S) == CHOOSE e \in S : \A f \in S : e <= f

RECURSIVE Sum(_, _)
Sum(xs, n) == IF n = 0 THEN 0 ELSE Sum(xs, n - 1) + xs[n]

\* The sum of the xs[i] whose key ws[i] is m.
RECURSIVE GroupSum(_, _, _, _)
GroupSum(ws, xs, m, n) ==
    IF n = 0 THEN Rat(0, 1)
    ELSE IF ws[n] = m THEN RatAdd(GroupSum(ws, xs, m, n - 1), xs[n])
    ELSE GroupSum(ws, xs, m, n - 1)

\* sum_i ws[i] * xs[i] for symbolic ws: the nonzero coefficient of each key.
Form(ws, xs) ==
    [m \in { ws[i] : i \in { j \in 1..Len(ws) : GroupSum(ws, xs, ws[j], Len(ws)).n # 0 } }
        |-> GroupSum(ws, xs, m, Len(ws))]

(***************************************************************************)
(* IEEE doubles near the grid.  The pair [k, r] is the number              *)
(* k / Grid + r / (Grid * 2^FracBits).                                     *)
(***************************************************************************)
\* Bits of a double's significand after the leading one.
Mantissa == 52

\* Every double of magnitude at least 1/16 is a multiple of 2^-FracBits.
FracBits == Mantissa + 4

RECURSIVE Pow2(_)
Pow2(n) == IF n = 0 THEN 1 ELSE 2 * Pow2(n - 1)

\* 2^n modulo m.
RECURSIVE Pow2Mod(_, _)
Pow2Mod(n, m) == IF n = 0 THEN 1 % m ELSE (2 * Pow2Mod(n - 1, m)) % m

\* Binade j holds the magnitudes in [2^(j-4), 2^(j-3)); its doubles are the
\* multiples of 2^j * 2^-FracBits.
Binades == 0..8

\* The powers of two that bound the binades.
Pow2Of == [n \in Binades \cup { b + 1 : b \in Binades } |-> Pow2(n)]

\* 2^FracBits modulo twice the spacing of binade j, in units of
\* 1 / (Grid * 2^FracBits).
UnitMod == [j \in Binades |-> Pow2Mod(FracBits, 2 * Grid * Pow2Of[j])]

DblZero == [k |-> 0, r |-> 0]

DblSgn(x) == IF x.k # 0 THEN Sgn(x.k) ELSE Sgn(x.r)

DblNeg(x) == [k |-> -x.k, r |-> -x.r]

\* The binade of a magnitude a with a.k > 0.
Binade(a) ==
    LET j == CHOOSE b \in Binades :
                 /\ Pow2Of[b] * Grid <= 16 * a.k
                 /\ 16 * a.k < Pow2Of[b + 1] * Grid
    IN  IF Pow2Of[j] * Grid = 16 * a.k /\ a.r < 0 THEN j - 1 ELSE j

\* Round a magnitude to the nearest double, ties to the even significand.
RoundMagnitude(a) ==
    LET j == Binade(a)
        spacing == Grid * Pow2Of[j]
        rem2 == (a.k * UnitMod[j] + a.r) % (2 * spacing)
        rem == rem2 % spacing
        up == 2 * rem > spacing \/ (2 * rem = spacing /\ rem2 # rem)
    IN  [k |-> a.k, r |-> IF up THEN a.r - rem + spacing ELSE a.r - rem]

\* Numbers below 1/16 that arise here are differences of doubles and exact.
Round(x) ==
    IF x.k = 0 THEN x
    ELSE IF x.k > 0 THEN RoundMagnitude(x)
    ELSE DblNeg(RoundMagnitude(DblNeg(x)))

\* The double nearest to k / Grid: what float() makes of the file's text.
Double(k) == Round([k |-> k, r |-> 0])

DblSub(x, y) == Round([k |-> x.k - y.k, r |-> x.r - y.r])

DblAdd(x, y) == Round([k |-> x.k + y.k, r |-> x.r + y.r])

\* 0.5 and 1.0 are doubles.
DblHalf == [k |-> HalfGrid, r |-> 0]

DblOne == [k |-> Grid, r |-> 0]

\* fmod(a, 1) of a magnitude: exact.
Fmod1(a) ==
    LET whole == IF a.k % Grid = 0 /\ a.r < 0 THEN (a.k \div Grid) - 1 ELSE a.k \div Grid
    IN  [k |-> a.k - whole * Grid, r |-> a.r]

\* numpy's x % 1: fmod, and a nonzero negative remainder is moved up by 1.0.
DblMod1(x) ==
    IF DblSgn(x) >= 0 THEN Fmod1(x)
    ELSE LET m == Fmod1(DblNeg(x))
         IN  IF m = DblZero THEN DblZero ELSE DblAdd(DblNeg(m), DblOne)

\* x < y for doubles.
DblLess(x, y) == x.k < y.k \/ (x.k = y.k /\ x.r < y.r)

(***************************************************************************)
(* The structures a POSCAR file can hold.                                  *)
(***************************************************************************)
Cubic10 == << <<10, 0, 0>>, <<0, 10, 0>>, <<0, 0, 10>> >>

\* Mutually orthogonal rows that are not the axes.
Ortho == << <<3, 4, 0>>, <<-4, 3, 0>>, <<0, 0, 2>> >>

\* A strongly sheared cell.
Skew == << <<6, 1, 0>>, <<1, 0, 0>>, <<0, 0, 1>> >>

Lattices == {Cubic10, Ortho, Skew}

SpeciesLists == { <<"C", "H">>, <<"H", "H">> }

\* Atom positions inside the cell, in units of 1 / Grid.
Sites ==
    { <<Grid - 1, 0, 0>>, <<0, 0, 0>>, <<1, 0, 0>>, <<HalfGrid - 1, HalfGrid, 0>> }

\* A position written one cell further along the first lattice vector: a
\* POSCAR file may hold coordinates outside [0, 1).
OutOfCell == <<Grid + HalfGrid - 1, HalfGrid, 0>>

Structures ==
    { [frac_coords |-> <<p, q>>, lattice |-> L, species |-> sp] :
        p \in Sites \cup {OutOfCell}, q \in Sites, L \in Lattices, sp \in SpeciesLists }

\* main reads only frac_coords of the final structure (line 34), so the
\* final files are enumerated with two lattices and one species list; they
\* agree with some initial files and differ from others in lattice, species
\* or both.
FinalStructures ==
    { s \in Structures : s.lattice # Ortho /\ s.species = <<"C", "H">> }

\* main reads only frac_coords of the medium structure (line 52), so the
\* medium files are enumerated with one lattice and one species list, and
\* with the atoms on the sites next to the origin.
MediumStructures ==
    { s \in Structures :
        /\ s.lattice = Cubic10 /\ s.species = <<"H", "H">>
        /\ \A i \in 1..Len(s.frac_coords) : s.frac_coords[i][2] = 0 }

NoStruct == [frac_coords |-> <<>>, lattice |-> <<>>, species |-> <<>>]

\* Element.atomic_mass of pymatgen's periodic table, in amu.
atomic_mass(spc) == IF spc = "C" THEN Rat(120107, 10000) ELSE Rat(100794, 100000)

\* Poscar.site_symbols: the species list with consecutive repeats merged.
site_symbols(species) ==
    SelectSeq([i \in 1..Len(species) |->
                   IF i > 1 /\ species[i] = species[i - 1] THEN "" ELSE species[i]],
              LAMBDA e : e # "")

\* "{}".format(i_path): None is formatted as the text None.
format(i_path) == IF i_path = "<None>" THEN "None" ELSE i_path

\* read_poscar on a file whose parsed content is poscar.
read_poscar(poscar, l_get_sorted_symbols) ==
    IF l_get_sorted_symbols
    THEN <<poscar, site_symbols(poscar.species)>>
    ELSE <<poscar>>

(***************************************************************************)
(* Lines 34-37 and 52-54: minimum-image Cartesian displacement.            *)
(***************************************************************************)
\* Wrap without the shift by half a cell: x % 1.
Wrap_NoCentering(raw) == DblMod1(raw)

\* Wrap that only folds differences of half a cell or more downwards.
Wrap_OneSided(raw) == IF DblLess(raw, DblHalf) THEN raw ELSE DblSub(raw, DblOne)

\* (x + 0.5) % 1 - 0.5 on one fractional component, in doubles.
Wrap(raw) == DblSub(DblMod1(DblAdd(raw, DblHalf)), DblHalf)

\* The coordinates k / Grid the model wraps: the cell and MaxShift cells on
\* either side of it, and the out-of-cell site shifted likewise.
CoordRange == (-MaxShift * Grid)..((MaxShift + 2) * Grid - 1)

\* Lines 34-35 for one component: b - a in doubles, then the wrap.
WrappedOf ==
    [b \in CoordRange |-> [a \in CoordRange |-> Wrap(DblSub(Double(b), Double(a)))]]

\* The product of a double and an integer lattice entry, rounded.
DblScale(x, n) == Round([k |-> x.k * n, r |-> x.r * n])

\* np.dot of one row vector with the lattice matrix: for each column the
\* products are added in the order of the rows, each sum rounded.
DotLattice(v, lattice) ==
    [c \in Axes |->
        DblAdd(DblAdd(DblScale(v[1], lattice[1][c]), DblScale(v[2], lattice[2][c])),
               DblScale(v[3], lattice[3][c]))]

\* (b.frac_coords - a.frac_coords + 0.5) % 1 - 0.5, per atom and axis.
WrappedDiff(b_coords, a_coords) ==
    [i \in 1..Len(a_coords) |->
        [c \in Axes |->
            IF b_coords[i][c] \in CoordRange /\ a_coords[i][c] \in CoordRange
            THEN WrappedOf[b_coords[i][c]][a_coords[i][c]]
            ELSE Wrap(DblSub(Double(b_coords[i][c]), Double(a_coords[i][c])))]]

\* np.dot(wrapped difference, lattice), per atom.
Displacement(b_coords, a_coords, lattice) ==
    LET wrapped == WrappedDiff(b_coords, a_coords)
    IN  [i \in 1..Len(wrapped) |-> DotLattice(wrapped[i], lattice)]

Masses(struct) == [i \in 1..Len(struct.species) |-> atomic_mass(struct.species[i])]

\* The leading term of a component: its grid value, or what is left of it
\* when the grid value is 0.
Lead(x) ==
    IF x.k # 0 THEN [val |-> x.k, tiny |-> 0]
    ELSE IF x.r # 0 THEN [val |-> x.r, tiny |-> 1]
    ELSE [val |-> 0, tiny |-> 0]

(***************************************************************************)
(* Lines 42-46: delta Q.                                                   *)
(***************************************************************************)
\* DeltaQ2 with the weighting branches exchanged.
DeltaQ2_FlagInverted(dR, ms, no_weight) ==
    [i \in 1..Len(dR) |->
        [c \in Axes |->
            [w |-> IF no_weight THEN ms[i] ELSE Rat(1, 1),
             sq |-> Lead(dR[i][c]).val * Lead(dR[i][c]).val,
             tiny |-> 2 * Lead(dR[i][c]).tiny]]]

\* delta_Q2: per atom and axis the number w * sq / Grid^2 * Tiny^tiny.
DeltaQ2(dR, ms, no_weight) ==
    [i \in 1..Len(dR) |->
        [c \in Axes |->
            [w |-> IF no_weight THEN Rat(1, 1) ELSE ms[i],
             sq |-> Lead(dR[i][c]).val * Lead(dR[i][c]).val,
             tiny |-> 2 * Lead(dR[i][c]).tiny]]]

\* np.sqrt(delta_Q2.sum()), kept as its radicand: the form of the masses
\* times Tiny^(2 * tiny).
DeltaQ(dR, ms, no_weight) ==
    LET q2 == DeltaQ2(dR, ms, no_weight)
        atoms == 1..Len(dR)
        orders == UNION { { q2[i][c].tiny : c \in { a \in Axes : q2[i][a].sq # 0 } } : i \in atoms }
        e == IF orders = {} THEN 0 ELSE Least(orders)
        at(i, c) == IF q2[i][c].tiny = e THEN q2[i][c].sq ELSE 0
        rows == [i \in atoms |-> Rat(at(i, 1) + at(i, 2) + at(i, 3), Grid * Grid)]
        ws == [i \in atoms |-> q2[i][1].w]
    IN  [sqrt_of |-> Form(ws, rows), tiny |-> e \div 2]

(***************************************************************************)
(* Lines 57-69: projection of the medium structure.                        *)
(***************************************************************************)
\* The product of two components, in units of 1 / Grid^2.
Times(x, y) ==
    [val |-> Lead(x).val * Lead(y).val, tiny |-> Lead(x).tiny + Lead(y).tiny]

\* The sum of three products: the terms of the least exponent.  Products
\* that are all zero add up to zero; nonzero ones that cancel leave noise
\* one exponent up.
Sum3(t) ==
    LET orders == { t[c].tiny : c \in { a \in Axes : t[a].val # 0 } }
        e == IF orders = {} THEN 0 ELSE Least(orders)
        at(c) == IF t[c].tiny = e THEN t[c].val ELSE 0
        s == at(1) + at(2) + at(3)
    IN  IF orders = {} THEN [val |-> 0, tiny |-> 0, noise |-> FALSE]
        ELSE IF s # 0 THEN [val |-> s, tiny |-> e, noise |-> FALSE]
        ELSE [val |-> 0, tiny |-> e + 1, noise |-> TRUE]

\* Einsum that dots each row of a with itself.
Einsum_Self(a, b) ==
    [i \in 1..Len(a) |-> Sum3([c \in Axes |-> Times(a[i][c], a[i][c])])]

\* np.einsum("ij,ij->i", a, b): row-wise dot products, in units of 1 / Grid^2.
Einsum(a, b) ==
    [i \in 1..Len(a) |-> Sum3([c \in Axes |-> Times(a[i][c], b[i][c])])]

\* np.linalg.norm(dR, axis=1), each norm kept as its radicand (1 / Grid^2)
\* times Tiny^tiny.
Norm(dR) ==
    [i \in 1..Len(dR) |->
        LET n2 == Sum3([c \in Axes |-> Times(dR[i][c], dR[i][c])])
        IN  [sqrt_of |-> n2.val, tiny |-> n2.tiny \div 2]]

\* dots / norm: the number num / (Grid * sqrt(root)) * Tiny^tiny; 0 / 0 is
\* nan (finite FALSE, num 0) and x / 0 is +-inf (finite FALSE, num +-1).  A
\* norm of 0 has a row of zeros, whose dot product is 0.
DeltaMProj(dots, norm) ==
    [i \in 1..Len(dots) |->
        IF norm[i].sqrt_of = 0
        THEN [finite |-> FALSE, num |-> Sgn(dots[i].val), root |-> 0, tiny |-> 0,
              noise |-> FALSE]
        ELSE [finite |-> TRUE, num |-> dots[i].val, root |-> norm[i].sqrt_of,
              tiny |-> dots[i].tiny - norm[i].tiny, noise |-> dots[i].noise]]

\* FracDeltaMProj without the second division: the projection numerator.
FracDeltaMProj_Once(proj, norm) ==
    [i \in 1..Len(proj) |->
        IF ~proj[i].finite THEN Num(proj[i].num, 0, 0)
        ELSE IF proj[i].noise THEN Noise(proj[i].tiny)
        ELSE Num(proj[i].num, 1, proj[i].tiny)]

\* FracDeltaMProj that reports 0 for an atom at rest.
FracDeltaMProj_Guarded(proj, norm) ==
    [i \in 1..Len(proj) |->
        IF norm[i].sqrt_of = 0 THEN Num(0, 1, 0)
        ELSE IF proj[i].noise THEN Noise(proj[i].tiny - norm[i].tiny)
        ELSE Num(proj[i].num, norm[i].sqrt_of, proj[i].tiny - norm[i].tiny)]

\* delta_M_proj / norm: dividing by the same norm again removes the root.
FracDeltaMProj(proj, norm) ==
    [i \in 1..Len(proj) |->
        IF ~proj[i].finite THEN Num(proj[i].num, 0, 0)
        ELSE IF proj[i].noise THEN Noise(proj[i].tiny - norm[i].tiny)
        ELSE Num(proj[i].num, norm[i].sqrt_of, proj[i].tiny - norm[i].tiny)]

\* np.sqrt of a mass, kept as its radicand.
SqrtMass(m) == [sqrt_of |-> m]

\* The number x * sqrt(1) / (1 * sqrt(1)) * Tiny^e: a rational as a
\* weighted average.
Plain(x, e) ==
    [num |-> [m \in {Rat(1, 1)} |-> x],
     den |-> [m \in {Rat(1, 1)} |-> Rat(1, 1)],
     tiny |-> IF x.n = 0 \/ x.d = 0 THEN 0 ELSE e,
     noise |-> FALSE]

\* An average whose leading terms cancel: finite, of the order of Tiny^e,
\* with a coefficient that is not determined and may be zero.
Residue(e) ==
    [num |-> [m \in {Rat(1, 1)} |-> Rat(0, 1)],
     den |-> [m \in {Rat(1, 1)} |-> Rat(1, 1)],
     tiny |-> e,
     noise |-> TRUE]

\* The sum of floats of which at least one is not finite.
NonFiniteSum(xs) ==
    LET bad == { i \in 1..Len(xs) : ~IsFinite(xs[i]) }
    IN  IF (\E i \in bad : xs[i].n = 0)
           \/ ((\E i \in bad : xs[i].n > 0) /\ (\E i \in bad : xs[i].n < 0))
        THEN Plain(NaN, 0)
        ELSE Plain(Rat(CHOOSE k \in {-1, 1} : \E i \in bad : xs[i].n = k, 0), 0)

\* np.average(xs, weights=ws) = sum(xs * ws) / sum(ws) for the weights
\* sqrt(ws[i].sqrt_of): the terms of the least exponent of the numerator,
\* as the forms num and den of the roots; a quotient that is rational is
\* written as Plain.  Terms that are all zero average to zero; a sum led by
\* noise, or whose leading terms cancel, is a Residue.
Average(xs, ws) ==
    IF \E i \in 1..Len(xs) : ~IsFinite(xs[i])
    THEN NonFiniteSum(xs)
    ELSE LET atoms == 1..Len(xs)
             orders == { xs[i].tiny : i \in { j \in atoms : xs[j].n # 0 } }
             noises == { xs[i].tiny : i \in { j \in atoms : xs[j].noise } }
             e == IF orders = {} THEN 0 ELSE Least(orders)
             keys == [i \in atoms |-> ws[i].sqrt_of]
             at == [i \in atoms |-> IF xs[i].tiny = e THEN Rat(xs[i].n, xs[i].d)
                                                       ELSE Rat(0, 1)]
             ones == [i \in atoms |-> Rat(1, 1)]
             num == Form(keys, at)
             den == Form(keys, ones)
             first == keys[1]
             ratio == Rat(GroupSum(keys, at, first, Len(keys)).n * den[first].d,
                          GroupSum(keys, at, first, Len(keys)).d * den[first].n)
         IN  IF noises # {} /\ (orders = {} \/ Least(noises) <= e)
             THEN Residue(Least(noises))
             ELSE IF orders # {} /\ DOMAIN num = {}
             THEN Residue(e + 1)
             ELSE IF \A m \in DOMAIN den :
                    GroupSum(keys, at, m, Len(keys))
                        = Rat(ratio.n * den[m].n, ratio.d * den[m].d)
             THEN Plain(ratio, e)
             ELSE [num |-> num, den |-> den, tiny |-> e, noise |-> FALSE]

\* Lines 63-66: without weights np.average is the mean.
Res(fracs, ms, no_weight) ==
    IF no_weight
    THEN Average(fracs, [i \in 1..Len(fracs) |-> SqrtMass(Rat(1, 1))])
    ELSE Average(fracs, [i \in 1..Len(ms) |-> SqrtMass(ms[i])])

ResIsFinite(r) == \A m \in DOMAIN r.num : IsFinite(r.num[m])

ResIsZero(r) == ~r.noise /\ \A m \in DOMAIN r.num : r.num[m] = Rat(0, 1)

ResIsNaN(r) == \E m \in DOMAIN r.num : r.num[m] = NaN

\* The form without terms: zero.
EmptyForm == [m \in {} |-> Rat(0, 1)]

\* No delta Q has been computed yet.
NoNumber == [sqrt_of |-> EmptyForm, tiny |-> -1]

ProjectedZero == [sqrt_of |-> EmptyForm, times |-> Plain(Rat(0, 1), 0), tiny |-> 0]

ProjectedNaN == [sqrt_of |-> EmptyForm, times |-> Plain(NaN, 0), tiny |-> 0]

\* delta_Q * res: the number sqrt(sqrt_of) * times * Tiny^tiny, nan if res
\* is nan or the product is 0 * inf, and zero when a factor is 0.
Projected(dQ, r) ==
    IF ~ResIsFinite(r)
    THEN IF ResIsNaN(r) \/ dQ.sqrt_of = EmptyForm
         THEN ProjectedNaN
         ELSE [sqrt_of |-> EmptyForm, times |-> r, tiny |-> 0]
    ELSE IF ResIsZero(r) \/ dQ.sqrt_of = EmptyForm
         THEN ProjectedZero
         ELSE [sqrt_of |-> dQ.sqrt_of, times |-> r, tiny |-> dQ.tiny + r.tiny]

ProjectedIsFinite(x) ==
    \A m \in DOMAIN x.times.num : IsFinite(x.times.num[m])

(***************************************************************************)
(* The run of the script as a state machine.                               *)
(***************************************************************************)
VARIABLES
    pc,                  \* the statement main is about to execute
    argv,                \* the command line
    args,                \* the parsed command line
    struct_i, struct_f, sorted_symbols, struct_m,
    delta_R, masses, delta_Q,
    frac_delta_M_proj, res,
    reads,               \* the paths handed to Poscar.from_file so far
    stdout,              \* the lines printed so far
    exit_code            \* -1 while running, 0 on success, 1 on an uncaught error

vars == <<pc, argv, args, struct_i, struct_f, sorted_symbols, struct_m,
          delta_R, masses, delta_Q, frac_delta_M_proj, res,
          reads, stdout, exit_code>>

\* -m is absent, given without a path, or given with a path.
CommandLines ==
    { [m_given |-> g, m_value |-> v, no_weight |-> nw] :
        g \in BOOLEAN, v \in {<<>>, <<"./POSCAR_m">>, <<"unassigned">>}, nw \in BOOLEAN }

NoArgs == [init |-> "", fin |-> "", med |-> "", no_weight |-> FALSE]

Init ==
    /\ pc = "parse_args"
    /\ argv \in { a \in CommandLines : ~a.m_given => a.m_value = <<>> }
    /\ args = NoArgs
    /\ struct_i = NoStruct
    /\ struct_f = NoStruct
    /\ sorted_symbols = <<>>
    /\ struct_m = NoStruct
    /\ delta_R = <<>>
    /\ masses = <<>>
    /\ delta_Q = NoNumber
    /\ frac_delta_M_proj = <<>>
    /\ res = Plain(NaN, 0)
    /\ reads = <<>>
    /\ stdout = <<>>
    /\ exit_code = -1

\* parse_args as if --med had const="unassigned".
parse_args_ConstSentinel(a) ==
    [init |-> "./POSCAR_i",
     fin |-> "./POSCAR_f",
     med |-> IF ~a.m_given \/ a.m_value = <<>> THEN "unassigned" ELSE a.m_value[1],
     no_weight |-> a.no_weight]

\* parser.parse_args(): --med has nargs="?" and no const, so -m without a
\* path stores None; an absent -m stores the default.
parse_args(a) ==
    [init |-> "./POSCAR_i",
     fin |-> "./POSCAR_f",
     med |-> IF ~a.m_given THEN "unassigned"
             ELSE IF a.m_value = <<>> THEN "<None>"
             ELSE a.m_value[1],
     no_weight |-> a.no_weight]

ParseArgs ==
    /\ pc = "parse_args"
    /\ args' = parse_args(argv)
    /\ pc' = "read_init"
    /\ UNCHANGED <<argv, struct_i, struct_f, sorted_symbols, struct_m, delta_R,
                   masses, delta_Q, frac_delta_M_proj, res, reads, stdout, exit_code>>

\* Raise that ends the process with exit code 0.
Raise_ExitZero(path) ==
    /\ reads' = Append(reads, format(path))
    /\ pc' = "error"
    /\ exit_code' = 0
    /\ UNCHANGED <<argv, args, struct_i, struct_f, sorted_symbols, struct_m, delta_R,
                   masses, delta_Q, frac_delta_M_proj, res, stdout>>

\* An exception of Poscar.from_file is not caught: the process ends.
Raise(path) ==
    /\ reads' = Append(reads, format(path))
    /\ pc' = "error"
    /\ exit_code' = 1
    /\ UNCHANGED <<argv, args, struct_i, struct_f, sorted_symbols, struct_m, delta_R,
                   masses, delta_Q, frac_delta_M_proj, res, stdout>>

\* Line 32.
ReadInit ==
    /\ pc = "read_init"
    /\ \E poscar \in Structures : struct_i' = read_poscar(poscar, FALSE)[1]
    /\ reads' = Append(reads, format(args.init))
    /\ pc' = "read_fin"
    /\ UNCHANGED <<argv, args, struct_f, sorted_symbols, struct_m, delta_R, masses,
                   delta_Q, frac_delta_M_proj, res, stdout, exit_code>>

ReadInitFails ==
    /\ pc = "read_init"
    /\ Raise(args.init)

\* Line 33.
ReadFin ==
    /\ pc = "read_fin"
    /\ \E poscar \in FinalStructures :
          /\ struct_f' = read_poscar(poscar, TRUE)[1]
          /\ sorted_symbols' = read_poscar(poscar, TRUE)[2]
    /\ reads' = Append(reads, format(args.fin))
    /\ pc' = "delta_Q"
    /\ UNCHANGED <<argv, args, struct_i, struct_m, delta_R, masses,
                   delta_Q, frac_delta_M_proj, res, stdout, exit_code>>

ReadFinFails ==
    /\ pc = "read_fin"
    /\ Raise(args.fin)

\* Lines 34-48.
ComputeDeltaQ ==
    /\ pc = "delta_Q"
    /\ delta_R' = Displacement(struct_f.frac_coords, struct_i.frac_coords,
                               struct_i.lattice)
    /\ masses' = Masses(struct_i)
    /\ delta_Q' = DeltaQ(delta_R', masses', args.no_weight)
    /\ stdout' = Append(stdout, [label |-> "Delta Q:", value |-> delta_Q'])
    /\ pc' = "medium"
    /\ UNCHANGED <<argv, args, struct_i, struct_f, sorted_symbols, struct_m,
                   frac_delta_M_proj, res, reads, exit_code>>

\* Line 50, condition false: main returns.
SkipMedium ==
    /\ pc = "medium"
    /\ ~(args.med # "unassigned")
    /\ pc' = "done"
    /\ exit_code' = 0
    /\ UNCHANGED <<argv, args, struct_i, struct_f, sorted_symbols, struct_m, delta_R,
                   masses, delta_Q, frac_delta_M_proj, res, reads, stdout>>

ReadMediumFails ==
    /\ pc = "medium"
    /\ args.med # "unassigned"
    /\ Raise(args.med)

\* Project that prints the fraction before the projected delta Q.
Project_FractionFirst ==
    /\ pc = "medium"
    /\ args.med # "unassigned"
    /\ \E poscar \in MediumStructures : struct_m' = read_poscar(poscar, FALSE)[1]
    /\ reads' = Append(reads, format(args.med))
    /\ \E delta_M \in {Displacement(struct_m'.frac_coords, struct_i.frac_coords,
                                     struct_i.lattice)} :
       \E dots \in {Einsum(delta_R, delta_M)} :
       \E norm \in {Norm(delta_R)} :
       \E delta_M_proj \in {DeltaMProj(dots, norm)} :
          frac_delta_M_proj' = FracDeltaMProj(delta_M_proj, norm)
    /\ res' = Res(frac_delta_M_proj', masses, args.no_weight)
    /\ stdout' = stdout \o
          << [label |-> "Fractional displacement:", value |-> res'],
             [label |-> "Projected delta Q:", value |-> Projected(delta_Q, res')] >>
    /\ pc' = "done"
    /\ exit_code' = 0
    /\ UNCHANGED <<argv, args, struct_i, struct_f, sorted_symbols, delta_R, masses,
                   delta_Q>>

\* Lines 50-69, the medium file being readable; each local of main is
\* bound to its value once.
Project ==
    /\ pc = "medium"
    /\ args.med # "unassigned"
    /\ \E poscar \in MediumStructures : struct_m' = read_poscar(poscar, FALSE)[1]
    /\ reads' = Append(reads, format(args.med))
    /\ \E delta_M \in {Displacement(struct_m'.frac_coords, struct_i.frac_coords,
                                     struct_i.lattice)} :
       \E dots \in {Einsum(delta_R, delta_M)} :
       \E norm \in {Norm(delta_R)} :
       \E delta_M_proj \in {DeltaMProj(dots, norm)} :
          frac_delta_M_proj' = FracDeltaMProj(delta_M_proj, norm)
    /\ res' = Res(frac_delta_M_proj', masses, args.no_weight)
    /\ stdout' = stdout \o
          << [label |-> "Projected delta Q:", value |-> Projected(delta_Q, res')],
             [label |-> "Fractional displacement:", value |-> res'] >>
    /\ pc' = "done"
    /\ exit_code' = 0
    /\ UNCHANGED <<argv, args, struct_i, struct_f, sorted_symbols, delta_R, masses,
                   delta_Q>>

Next ==
    \/ ParseArgs
    \/ ReadInit
    \/ ReadInitFails
    \/ ReadFin
    \/ ReadFinFails
    \/ ComputeDeltaQ
    \/ SkipMedium
    \/ ReadMediumFails
    \/ Project

Spec == Init /\ [][Next]_vars

TypeOK == pc \in {"parse_args", "read_init", "read_fin", "delta_Q", "medium",
                  "done", "error"}

(***************************************************************************)
(* Vocabulary of the properties.                                           *)
(***************************************************************************)
DeltaQPrinted == pc \in {"medium", "done"} \/ (pc = "error" /\ Len(reads) = 3)

Projected_Done == pc = "done" /\ Len(stdout) = 3

Atoms == 1..Len(struct_i.frac_coords)

Labels == [k \in 1..Len(stdout) |-> stdout[k].label]

Length2(v) == v[1] * v[1] + v[2] * v[2] + v[3] * v[3]

\* The grid values of a row of doubles: the row up to rounding.
OnGrid(row) == [c \in Axes |-> row[c].k]

Shifts == (-MaxShift)..MaxShift

\* The raw fractional difference final - initial of atom i, on the grid.
RawDiff(i) == [c \in Axes |-> struct_f.frac_coords[i][c] - struct_i.frac_coords[i][c]]

\* The wrapped component, said without the mod: the one value in
\* [-0.5, 0.5) that differs from raw by a whole number of cells.
Canonical(raw) ==
    CHOOSE w \in (-HalfGrid)..(HalfGrid - 1) : (raw - w) % Grid = 0

InCell(coords) ==
    \A i \in 1..Len(coords) : \A c \in Axes : coords[i][c] \in 0..(Grid - 1)

\* The displacement of atom i is exactly zero, as the division tests it.
Stationary(i) == \A c \in Axes : delta_R[i][c] = DblZero

\* The displacement of atom i is zero up to rounding.
AtRest(i) == \A c \in Axes : delta_R[i][c].k = 0

\* The value of a delta Q squared up to rounding.
OnGridQ2(dQ) == IF dQ.tiny = 0 THEN dQ.sqrt_of ELSE EmptyForm

OrthogonalRows(lattice) ==
    \A j \in Axes : \A k \in Axes :
        j # k => lattice[j][1] * lattice[k][1] + lattice[j][2] * lattice[k][2]
                 + lattice[j][3] * lattice[k][3] = 0

(***************************************************************************)
(* C1: once delta Q is computed, delta_Q^2 is the sum over the atoms of    *)
(* mass_i * |dr_i|^2 with mass weighting and of |dr_i|^2 with --no_weight, *)
(* dr_i being the wrapped fractional difference final - initial times the  *)
(* lattice (for coordinates inside the cell the wrapped difference is the  *)
(* value in [-0.5, 0.5) a whole number of cells from the raw one);         *)
(* delta_Q is not negative and is the value printed; one atom of mass m    *)
(* moved by (0.1, 0, 0) in the cubic cell of constant 10, the other atom   *)
(* at rest, gives delta_Q^2 = m weighted (12 for a mass of 12) and 1       *)
(* unweighted.                                                             *)
(***************************************************************************)
ExpectedDeltaQ2 ==
    LET wrapped == WrappedDiff(struct_f.frac_coords, struct_i.frac_coords)
        lattice == struct_i.lattice
        dr == [i \in Atoms |->
                  [c \in Axes |-> wrapped[i][1].k * lattice[1][c]
                                  + wrapped[i][2].k * lattice[2][c]
                                  + wrapped[i][3].k * lattice[3][c]]]
        ws == [i \in Atoms |-> IF args.no_weight THEN Rat(1, 1)
                               ELSE atomic_mass(struct_i.species[i])]
        terms == [i \in Atoms |-> Rat(Length2(dr[i]), Grid * Grid)]
    IN  Form(ws, terms)

WrapIsCanonical ==
    LET wrapped == WrappedDiff(struct_f.frac_coords, struct_i.frac_coords)
    IN  \A i \in Atoms : \A c \in Axes :
            /\ wrapped[i][c].k = Canonical(RawDiff(i)[c])
            /\ wrapped[i][c].k = 0 => wrapped[i][c].r = 0

ScenarioA ==
    /\ struct_i.lattice = Cubic10
    /\ struct_i.species = <<"C", "H">>
    /\ 10 * RawDiff(1)[1] = Grid /\ RawDiff(1)[2] = 0 /\ RawDiff(1)[3] = 0
    /\ RawDiff(2) = <<0, 0, 0>>

C1_DeltaQ ==
    /\ pc = "medium" =>
          /\ delta_Q.tiny \in {0, 1}
          /\ \A m \in DOMAIN delta_Q.sqrt_of :
                m.n > 0 /\ m.d > 0 /\ delta_Q.sqrt_of[m].n > 0 /\ delta_Q.sqrt_of[m].d > 0
          /\ OnGridQ2(delta_Q) = ExpectedDeltaQ2
          /\ (InCell(struct_i.frac_coords) /\ InCell(struct_f.frac_coords)) =>
                WrapIsCanonical /\ delta_Q.tiny = 0
          /\ ScenarioA =>
                delta_Q = [sqrt_of |-> [m \in {IF args.no_weight THEN Rat(1, 1)
                                               ELSE atomic_mass("C")} |-> Rat(1, 1)],
                           tiny |-> 0]
    /\ DeltaQPrinted => stdout[1] = [label |-> "Delta Q:", value |-> delta_Q]

C1_Witness ==
    /\ pc = "medium"
    /\ ScenarioA
    /\ ~args.no_weight
    /\ delta_Q.sqrt_of = [m \in {Rat(120107, 10000)} |-> Rat(1, 1)]

(***************************************************************************)
(* C2 as stated: exchanging --init and --fin negates every per-atom        *)
(* Cartesian displacement and leaves delta_Q unchanged, for every pair of  *)
(* structures with the same atom count, weighted or not.  Equality is up   *)
(* to rounding.                                                            *)
(***************************************************************************)
\* What main computes when the two files exchange their roles: the lattice
\* and the masses are then those of the other file.
SwappedDeltaR ==
    Displacement(struct_i.frac_coords, struct_f.frac_coords, struct_f.lattice)

SwappedDeltaQ == DeltaQ(SwappedDeltaR, Masses(struct_f), args.no_weight)

SwapNegates ==
    /\ \A i \in Atoms : \A c \in Axes : SwappedDeltaR[i][c].k = -delta_R[i][c].k
    /\ OnGridQ2(SwappedDeltaQ) = OnGridQ2(delta_Q)

C2_Original == pc = "medium" => SwapNegates

(***************************************************************************)
(* C2 amended: the same holds when the two structures also have the same   *)
(* lattice and the same species in the same order and no fractional        *)
(* coordinate differs by half a cell (plus whole cells) between them.      *)
(***************************************************************************)
SameCell ==
    struct_f.lattice = struct_i.lattice /\ struct_f.species = struct_i.species

NoHalfCell == \A i \in Atoms : \A c \in Axes : RawDiff(i)[c] % Grid # HalfGrid

C2_Amended == (pc = "medium" /\ SameCell /\ NoHalfCell) => SwapNegates

C2_Witness ==
    /\ pc = "medium"
    /\ SameCell
    /\ NoHalfCell
    /\ ~args.no_weight
    /\ RawDiff(1)[1] = Grid - 1
    /\ ~AtRest(2)
    /\ SwapNegates

(***************************************************************************)
(* C3 as stated: for every atom and every lattice matrix the displacement  *)
(* main computes is not longer than any periodic image of it, the raw      *)
(* fractional difference plus an integer vector, times the lattice.        *)
(***************************************************************************)
\* The squared length of the image (raw + n) . lattice.
ImageLength2(raw, n1, n2, n3, lattice) ==
    LET f1 == raw[1] + n1 * Grid
        f2 == raw[2] + n2 * Grid
        f3 == raw[3] + n3 * Grid
        x == f1 * lattice[1][1] + f2 * lattice[2][1] + f3 * lattice[3][1]
        y == f1 * lattice[1][2] + f2 * lattice[2][2] + f3 * lattice[3][2]
        z == f1 * lattice[1][3] + f2 * lattice[2][3] + f3 * lattice[3][3]
    IN  x * x + y * y + z * z

MinimumImage(i) ==
    LET raw == RawDiff(i)
        lattice == struct_i.lattice
        len == Length2(OnGrid(delta_R[i]))
    IN  \A n1 \in Shifts : \A n2 \in Shifts : \A n3 \in Shifts :
            len <= ImageLength2(raw, n1, n2, n3, lattice)

C3_Original == pc = "medium" => \A i \in Atoms : MinimumImage(i)

(***************************************************************************)
(* C3 amended: the same holds for every lattice matrix whose rows are      *)
(* mutually orthogonal.                                                    *)
(***************************************************************************)
C3_Amended ==
    (pc = "medium" /\ OrthogonalRows(struct_i.lattice)) =>
        \A i \in Atoms : MinimumImage(i)

C3_Witness ==
    /\ pc = "medium"
    /\ struct_i.lattice = Ortho
    /\ RawDiff(1)[1] = Grid - 1
    /\ Abs(RawDiff(2)[1]) = HalfGrid
    /\ \A i \in Atoms : MinimumImage(i)

(***************************************************************************)
(* C4: every wrapped component lies in [-0.5, 0.5), for the final and for  *)
(* the medium structure; raw differences that differ by whole cells wrap   *)
(* to the same value (0.9 as -0.1), and so give the same displacement and  *)
(* the same delta_Q.  Equality is up to rounding.                          *)
(***************************************************************************)
InRange(wrapped) ==
    \A i \in 1..Len(wrapped) : \A c \in Axes :
        ~DblLess(wrapped[i][c], DblNeg(DblHalf)) /\ DblLess(wrapped[i][c], DblHalf)

\* The final structure with component c of every atom moved by k whole cells.
ShiftedFinal(c, k) ==
    [i \in Atoms |->
        [a \in Axes |-> struct_f.frac_coords[i][a] + (IF a = c THEN k * Grid ELSE 0)]]

WrappedInRange ==
    /\ pc = "medium" =>
          InRange(WrappedDiff(struct_f.frac_coords, struct_i.frac_coords))
    /\ Projected_Done =>
          InRange(WrappedDiff(struct_m.frac_coords, struct_i.frac_coords))

ShiftInvariant ==
    pc = "medium" =>
        \A c \in Axes : \A k \in Shifts :
            LET dR == Displacement(ShiftedFinal(c, k), struct_i.frac_coords,
                                   struct_i.lattice)
            IN  /\ \A i \in Atoms : OnGrid(dR[i]) = OnGrid(delta_R[i])
                /\ OnGridQ2(DeltaQ(dR, masses, args.no_weight)) = OnGridQ2(delta_Q)

C4_WrapInvariant == WrappedInRange /\ ShiftInvariant

(***************************************************************************)
(* C5 as stated: with the medium structure exactly halfway between the     *)
(* initial and the final one for every atom, every per-atom fractional     *)
(* projection is 0.5, the reported fractional displacement is 0.5 with and *)
(* without mass weighting, and the reported projected delta Q is           *)
(* 0.5 * delta_Q.  Equality is up to rounding.                             *)
(***************************************************************************)
ReportedProjected == stdout[2].value

ReportedFraction == stdout[3].value

\* Every atom of the medium structure sits at half the minimum-image
\* displacement from its initial to its final position.
Halfway ==
    LET toFinal == WrappedDiff(struct_f.frac_coords, struct_i.frac_coords)
        toMedium == WrappedDiff(struct_m.frac_coords, struct_i.frac_coords)
    IN  \A i \in Atoms : \A c \in Axes : 2 * toMedium[i][c].k = toFinal[i][c].k

Half == Plain(Rat(1, 2), 0)

HalfEverywhere ==
    /\ \A i \in Atoms : frac_delta_M_proj[i] = Num(1, 2, 0)
    /\ ReportedFraction = Half
    /\ ReportedProjected
          = [sqrt_of |-> delta_Q.sqrt_of, times |-> Half, tiny |-> delta_Q.tiny]

C5_Original == (Projected_Done /\ Halfway) => HalfEverywhere

(***************************************************************************)
(* C5 amended: the same holds when, in addition, every atom has a          *)
(* displacement between the initial and the final structure that is not    *)
(* zero up to rounding.                                                    *)
(***************************************************************************)
AllMoving == \A i \in Atoms : ~AtRest(i)

C5_Amended == (Projected_Done /\ Halfway /\ AllMoving) => HalfEverywhere

C5_Witness ==
    /\ Projected_Done
    /\ Halfway
    /\ AllMoving
    /\ ~args.no_weight
    /\ masses = <<atomic_mass("C"), atomic_mass("H")>>
    /\ struct_i.lattice = Skew
    /\ ReportedFraction = Half

(***************************************************************************)
(* C6 as stated: with the medium structure identical to the initial one,   *)
(* the per-atom fractional displacement is 0 for every atom whose initial  *)
(* to final path length is nonzero, and the reported projected delta Q is  *)
(* 0.                                                                      *)
(***************************************************************************)
MediumIsInitial == struct_m.frac_coords = struct_i.frac_coords

ZeroWhereMoving ==
    \A i \in Atoms : ~Stationary(i) => frac_delta_M_proj[i] = Num(0, 1, 0)

C6_Original ==
    (Projected_Done /\ MediumIsInitial) =>
        ZeroWhereMoving /\ ReportedProjected = ProjectedZero

(***************************************************************************)
(* C6 amended: with the medium structure identical to the initial one,     *)
(* the per-atom fractional displacement is 0 for every atom whose path     *)
(* length is nonzero; the reported projected delta Q is 0 when every atom  *)
(* has a nonzero path length and is not a finite number otherwise.         *)
(***************************************************************************)
NoneStationary == \A i \in Atoms : ~Stationary(i)

C6_Amended ==
    (Projected_Done /\ MediumIsInitial) =>
        /\ ZeroWhereMoving
        /\ NoneStationary =>
              ReportedProjected = ProjectedZero /\ ReportedFraction = Plain(Rat(0, 1), 0)
        /\ ~NoneStationary => ~ProjectedIsFinite(ReportedProjected)

C6_Witness ==
    /\ Projected_Done
    /\ MediumIsInitial
    /\ NoneStationary
    /\ delta_Q.sqrt_of # EmptyForm
    /\ ReportedProjected = ProjectedZero

(***************************************************************************)
(* C7 as stated: a successful run has written two or three lines: the      *)
(* Delta Q line and, exactly when a medium structure is given, the         *)
(* Projected delta Q line followed by the Fractional displacement line.    *)
(***************************************************************************)
AllLabels == <<"Delta Q:", "Projected delta Q:", "Fractional displacement:">>

C7_Original ==
    /\ Len(stdout) <= 3
    /\ Labels = SubSeq(AllLabels, 1, Len(stdout))
    /\ pc = "done" =>
          /\ exit_code = 0
          /\ Len(stdout) \in {2, 3}
          /\ Len(stdout) = 3 <=> args.med # "unassigned"
          /\ Len(stdout) = 3 <=> struct_m # NoStruct

(***************************************************************************)
(* C7 amended: a successful run has written one or three lines: the Delta  *)
(* Q line alone when no medium structure is given and, exactly when the    *)
(* parsed --med is not the sentinel, that is exactly when a medium         *)
(* structure was loaded, also the Projected delta Q line followed by the   *)
(* Fractional displacement line; at every moment the lines printed so far  *)
(* are the first lines of that order.                                      *)
(***************************************************************************)
C7_Amended ==
    /\ Len(stdout) <= 3
    /\ Labels = SubSeq(AllLabels, 1, Len(stdout))
    /\ pc = "done" =>
          /\ exit_code = 0
          /\ Len(stdout) \in {1, 3}
          /\ Len(stdout) = 1 <=> args.med = "unassigned"
          /\ Len(stdout) = 3 <=> args.med # "unassigned"
          /\ Len(stdout) = 3 <=> struct_m # NoStruct

C7_Witness ==
    /\ pc = "done"
    /\ args.med = "./POSCAR_m"
    /\ Labels = AllLabels

(***************************************************************************)
(* C8 as stated: a run that ends in a load error of any of the three files *)
(* exits non-zero and has written no result line.                          *)
(***************************************************************************)
C8_Original == pc = "error" => exit_code # 0 /\ stdout = <<>>

(***************************************************************************)
(* C8 amended: a load error ends the run at once with a non-zero exit and  *)
(* no file is read twice; a run that ends in a load error of the initial   *)
(* or the final file has written no result line, and one that ends in a    *)
(* load error of the medium file has written the Delta Q line and neither  *)
(* projection line.                                                        *)
(***************************************************************************)
C8_Amended ==
    /\ reads = SubSeq(<<args.init, args.fin, format(args.med)>>, 1, Len(reads))
    /\ pc = "error" =>
          /\ exit_code = 1
          /\ ~ENABLED Next
          /\ Len(reads) \in 1..3
          /\ Len(reads) <= 2 => stdout = <<>>
          /\ Len(reads) = 3 => Labels = <<"Delta Q:">> /\ struct_m = NoStruct

C8_Witness ==
    /\ pc = "error"
    /\ reads = <<"./POSCAR_i", "./POSCAR_f", "./POSCAR_m">>
    /\ Labels = <<"Delta Q:">>

(***************************************************************************)
(* C9: in the projection, an atom with zero displacement between the       *)
(* initial and the final structure makes its per-atom value, the reported  *)
(* fractional displacement and the reported projected delta Q not finite;  *)
(* when every atom has a nonzero displacement both reported values are     *)
(* finite.                                                                 *)
(***************************************************************************)
C9_DivisionByZero ==
    Projected_Done =>
        /\ \A i \in Atoms : Stationary(i) <=> ~IsFinite(frac_delta_M_proj[i])
        /\ IF \E i \in Atoms : Stationary(i)
           THEN ~ResIsFinite(ReportedFraction) /\ ~ProjectedIsFinite(ReportedProjected)
           ELSE ResIsFinite(ReportedFraction) /\ ProjectedIsFinite(ReportedProjected)

C9_Witness ==
    /\ Projected_Done
    /\ Stationary(1)
    /\ ~Stationary(2)
    /\ IsFinite(frac_delta_M_proj[2])
    /\ ResIsNaN(ReportedFraction)

(***************************************************************************)
(* C10: the medium file is read exactly when the parsed --med differs from *)
(* the sentinel "unassigned"; without -m the parsed value is the sentinel  *)
(* and the branch is skipped; -m without a path parses to a value other    *)
(* than the sentinel, so the medium file is read, after the Delta Q line   *)
(* has been printed.                                                       *)
(***************************************************************************)
C10_Sentinel ==
    /\ (pc # "parse_args" /\ ~argv.m_given) => args.med = "unassigned"
    /\ (pc # "parse_args" /\ argv.m_given /\ argv.m_value = <<>>) =>
          args.med # "unassigned"
    /\ Len(reads) = 3 =>
          /\ args.med # "unassigned"
          /\ reads[3] = format(args.med)
          /\ Len(stdout) >= 1 /\ stdout[1].label = "Delta Q:"
    /\ pc = "medium" => (ENABLED SkipMedium <=> args.med = "unassigned")
    /\ pc = "done" => (Len(reads) = 3 <=> args.med # "unassigned")

C10_Witness ==
    /\ pc = "error"
    /\ argv.m_given /\ argv.m_value = <<>>
    /\ reads = <<"./POSCAR_i", "./POSCAR_f", "None">>
    /\ Labels = <<"Delta Q:">>

====
